---- MODULE Spec2Model ----
(***************************************************************************)
(* A model of rusty_candypicker: the CSV clustering path                   *)
(* (src/src/csv_cluster.rs), the XML clustering path (src/src/main.rs) and *)
(* the cross-file matcher (src/src/bin/csv_matcher.rs).                    *)
(*                                                                         *)
(* f64 arithmetic is modelled by a binary floating-point format of reduced *)
(* width: a finite value is m * 2^e with a MantBits-bit significand, every *)
(* operation rounds its exact result to the nearest value (ties to even),  *)
(* and NaN and the two infinities behave as in IEEE-754.  Zero carries no  *)
(* sign and there are no subnormals.                                       *)
(***************************************************************************)
EXTENDS Integers, Sequences, FiniteSets

\* ------------------------------------------------------------------ bounds
\* Longest input (records over all input files) of a csv_candypicker run.
MaxRows == 3
\* Most candidates (over all input files) of a candy_picker_rs run.
MaxCands == 4
\* Width of the significand of the modelled f64.
MantBits == 8
\* Largest exponent e of a finite value m * 2^e.
ExpMax == 30

\* --------------------------------------------------------------- f64 values
Pow2(n) == 2 ^ n
MantLo == Pow2(MantBits - 1)
MantHi == Pow2(MantBits)
\* Smallest exponent: chosen, as in binary64, so that the reciprocal of the
\* largest finite value is still non-zero while the reciprocal of the
\* smallest positive value overflows.
ExpMin == (0 - ExpMax) - 2 * MantBits

NaN == [k |-> "nan", m |-> 0, e |-> 0]
PosInf == [k |-> "inf", m |-> 1, e |-> 0]
NegInf == [k |-> "inf", m |-> -1, e |-> 0]
Zero == [k |-> "fin", m |-> 0, e |-> 0]
\* Option<f64>::None
None == [k |-> "none", m |-> 0, e |-> 0]

Sgn(n) == IF n < 0 THEN -1 ELSE IF n > 0 THEN 1 ELSE 0
Abs(n) == IF n < 0 THEN 0 - n ELSE n
Inf(s) == IF s < 0 THEN NegInf ELSE PosInf

\* The number of bits of n, 0 <= n < 2^32.
BitLen4(n) == IF n >= 8 THEN 4 ELSE IF n >= 4 THEN 3 ELSE IF n >= 2 THEN 2 ELSE n
BitLen8(n) == IF n >= 16 THEN 4 + BitLen4(n \div 16) ELSE BitLen4(n)
BitLen16(n) == IF n >= 256 THEN 8 + BitLen8(n \div 256) ELSE BitLen8(n)
BitLen(n) == IF n >= 65536 THEN 16 + BitLen16(n \div 65536) ELSE BitLen16(n)

Pack(s, m, e) ==
    IF e > ExpMax THEN Inf(s)
    ELSE IF e < ExpMin THEN Zero
    ELSE [k |-> "fin", m |-> s * m, e |-> e]

\* The f64 nearest to the exact value n * 2^e (round to nearest, ties to
\* even), in steps: the rounded significand q2 that reached 2^MantBits is
\* renormalised; q is rounded up when the r bits cut off (rem) are above half
\* an ulp, or are half an ulp and q is odd; r is the number of bits to cut.
RoundUp(s, q2, e) ==
    IF q2 = MantHi THEN Pack(s, MantLo, e + 1) ELSE Pack(s, q2, e)
RoundCut(s, q, rem, half, e) ==
    RoundUp(s, IF rem > half \/ (rem = half /\ q % 2 = 1) THEN q + 1 ELSE q, e)
RoundTo(s, a, r, e) ==
    IF r <= 0 THEN Pack(s, a * Pow2(0 - r), e + r)
    ELSE RoundCut(s, a \div Pow2(r), a % Pow2(r), Pow2(r - 1), e + r)
RoundAbs(s, a, e) == RoundTo(s, a, BitLen(a) - MantBits, e)
Round(n, e) == IF n = 0 THEN Zero ELSE RoundAbs(Sgn(n), Abs(n), e)

\* An integer as f64 (`k as f64`, integer literals).
FromInt(n) == Round(n, 0)
One == FromInt(1)

IsNaN(a) == a.k = "nan"
\* f64::is_finite
IsFinite(a) == a.k = "fin"

FNeg(a) == IF a.k = "nan" THEN NaN ELSE [a EXCEPT !.m = 0 - a.m]
\* f64::abs
FAbs(a) == IF a.k = "nan" THEN NaN ELSE [a EXCEPT !.m = Abs(a.m)]

\* a + b
FAdd(a, b) ==
    IF a.k = "nan" \/ b.k = "nan" THEN NaN
    ELSE IF a.k = "inf" THEN (IF b.k = "inf" /\ b.m # a.m THEN NaN ELSE a)
    ELSE IF b.k = "inf" THEN b
    ELSE IF a.m = 0 THEN b
    ELSE IF b.m = 0 THEN a
    ELSE IF a.e - b.e > MantBits + 2 THEN a
    ELSE IF b.e - a.e > MantBits + 2 THEN b
    ELSE LET e == IF a.e < b.e THEN a.e ELSE b.e
         IN Round(a.m * Pow2(a.e - e) + b.m * Pow2(b.e - e), e)

\* a - b
FSub(a, b) == FAdd(a, FNeg(b))

\* a * b
FMul(a, b) ==
    IF a.k = "nan" \/ b.k = "nan" THEN NaN
    ELSE IF a.k = "inf" \/ b.k = "inf"
         THEN (IF a.m = 0 \/ b.m = 0 THEN NaN ELSE Inf(Sgn(a.m) * Sgn(b.m)))
    ELSE Round(a.m * b.m, a.e + b.e)

\* a / b
FDiv(a, b) ==
    IF a.k = "nan" \/ b.k = "nan" THEN NaN
    ELSE IF a.k = "inf"
         THEN (IF b.k = "inf" THEN NaN
               ELSE Inf(a.m * (IF b.m < 0 THEN -1 ELSE 1)))
    ELSE IF b.k = "inf" THEN Zero
    ELSE IF b.m = 0 THEN (IF a.m = 0 THEN NaN ELSE Inf(a.m))
    ELSE IF a.m = 0 THEN Zero
    ELSE LET num == Abs(a.m) * Pow2(MantBits + 2)
             q == num \div Abs(b.m)
             sticky == IF num % Abs(b.m) = 0 THEN 0 ELSE 1
         IN Round(Sgn(a.m) * Sgn(b.m) * (2 * q + sticky),
                  ((a.e - b.e) - (MantBits + 2)) - 1)

RECURSIVE PowMod(_, _)
\* 2^d modulo n
PowMod(d, n) == IF d = 0 THEN 1 % n ELSE (2 * PowMod(d - 1, n)) % n

\* a < b (false when either is NaN)
FLt(a, b) ==
    IF a.k = "nan" \/ b.k = "nan" THEN FALSE
    ELSE IF a.k = "inf" THEN a.m < 0 /\ b # a
    ELSE IF b.k = "inf" THEN b.m > 0
    ELSE IF Sgn(a.m) # Sgn(b.m) THEN Sgn(a.m) < Sgn(b.m)
    ELSE IF a.m = 0 THEN FALSE
    ELSE IF a.m > 0 THEN a.e < b.e \/ (a.e = b.e /\ a.m < b.m)
    ELSE a.e > b.e \/ (a.e = b.e /\ a.m < b.m)

\* a == b (false when either is NaN)
FEq(a, b) == a.k # "nan" /\ b.k # "nan" /\ a = b
\* a <= b
FLe(a, b) == FLt(a, b) \/ FEq(a, b)
\* a > b
FGt(a, b) == FLt(b, a)

\* a % b (fmod: exact, sign of the dividend)
FRem(a, b) ==
    IF a.k = "nan" \/ b.k = "nan" \/ a.k = "inf" THEN NaN
    ELSE IF b.k = "inf" THEN a
    ELSE IF b.m = 0 THEN NaN
    ELSE IF FLt(FAbs(a), FAbs(b)) THEN a
    ELSE Round(Sgn(a.m) * ((Abs(a.m) * PowMod(a.e - b.e, Abs(b.m))) % Abs(b.m)),
               b.e)

\* The largest integer of the model, standing for i64::MAX.
I64Max == (Pow2(30) - 1) + Pow2(30)

\* The smallest integer of the model, standing for i64::MIN.
I64Min == (0 - I64Max) - 1

\* a.floor() as i64: the cast saturates, and NaN casts to 0.
FloorI64(a) ==
    IF a.k = "nan" THEN 0
    ELSE IF a.k = "inf" THEN (IF a.m < 0 THEN I64Min ELSE I64Max)
    ELSE IF a.e >= 0
         THEN (IF a.e + MantBits > 30
               THEN (IF a.m < 0 THEN I64Min ELSE IF a.m > 0 THEN I64Max ELSE 0)
               ELSE a.m * Pow2(a.e))
    ELSE IF 0 - a.e > MantBits THEN (IF a.m < 0 THEN -1 ELSE 0)
    ELSE a.m \div Pow2(0 - a.e)

\* An i64 as f64 (`b0 as f64`).
I64ToF(b) ==
    IF b = I64Min THEN [k |-> "fin", m |-> 0 - MantLo, e |-> 32 - MantBits]
    ELSE FromInt(b)

\* b + 1 and b - 1 on i64 where the build wraps on overflow.
Succ64(b) == IF b = I64Max THEN I64Min ELSE b + 1
Pred64(b) == IF b = I64Min THEN I64Max ELSE b - 1

\* ------------------------------------------------------------ text fields
\* A CSV/XML text field, after trim(), by lexical class: a decimal number
\* n/d, "nan" or "inf" in any letter case (n carries the sign of inf), the
\* empty string, or other text.
Num(n, d) == [t |-> "num", n |-> n, d |-> d]
TNaN == [t |-> "nan", n |-> 0, d |-> 1]
TInf == [t |-> "inf", n |-> 1, d |-> 1]
TEmpty == [t |-> "empty", n |-> 0, d |-> 1]
TJunk == [t |-> "junk", n |-> 0, d |-> 1]

\* str::parse::<f64>().ok(): the nearest f64 of a decimal, NaN and the
\* infinities by name, None for anything else.
ParseF64(tok) ==
    CASE tok.t = "num" -> FDiv(FromInt(tok.n), FromInt(tok.d))
      [] tok.t = "nan" -> NaN
      [] tok.t = "inf" -> Inf(tok.n)
      [] OTHER -> None

IsSome(o) == o.k # "none"

\* -------------------------------------------------- src/src/csv_cluster.rs
SPEED_OF_LIGHT == 299792458
SpeedOfLight == FromInt(SPEED_OF_LIGHT)
\* tobs_opt.unwrap_or(600.0)
DefaultTobs == 600
\* const HMAX: usize = 16
HMAX == 16

\* parse_row, once the four fields are parsed: None (no row) when one of
\* them is not a number or the period-like value is not positive and finite.
row_view(cols, rec, src, dm, acc, snr, pl) ==
    IF ~IsSome(dm) \/ ~IsSome(acc) \/ ~IsSome(snr) \/ ~IsSome(pl) THEN <<>>
    ELSE IF FLe(pl, Zero) \/ ~IsFinite(pl) THEN <<>>
    ELSE << [row |-> rec, source |-> src,
             period_s |-> IF cols.is_period THEN pl ELSE FDiv(One, pl),
             dm |-> dm, acc |-> acc, snr |-> snr] >>

\* Option<RowView> as a sequence of at most one row.  `row` keeps the whole
\* original record, `source` the file it came from.
parse_row(cols, rec, src) ==
    row_view(cols, rec, src, ParseF64(rec.dm), ParseF64(rec.acc),
             ParseF64(rec.snr), ParseF64(rec.p))

\* periods_match: p_b_corr, b's period corrected to a's acceleration
p_b_corr_of(a, b, f0_b, tobs_over_c) ==
    FDiv(One, FSub(f0_b, FMul(FMul(FSub(b.acc, a.acc), f0_b), tobs_over_c)))

\* A test on the periods that tries the multiples of p_b_corr only.
period_test_one_way(p_a, p_b_corr, ptol_abs, allow_harmonics) ==
    IF ~allow_harmonics
    THEN FLe(FAbs(FSub(p_a, p_b_corr)), ptol_abs)
    ELSE \E k \in 1..HMAX :
            FLe(FAbs(FSub(p_a, FMul(FromInt(k), p_b_corr))), ptol_abs)

\* periods_match: the test on the periods, plain or over the harmonics 1..HMAX
period_test(p_a, p_b_corr, ptol_abs, allow_harmonics) ==
    IF ~allow_harmonics
    THEN FLe(FAbs(FSub(p_a, p_b_corr)), ptol_abs)
    ELSE \E k \in 1..HMAX :
            \/ FLe(FAbs(FSub(p_a, FMul(FromInt(k), p_b_corr))), ptol_abs)
            \/ FLe(FAbs(FSub(FMul(FromInt(k), p_a), p_b_corr)), ptol_abs)

\* Acceleration-aware period match with optional harmonics.
periods_match(a, b, ptol_abs, dmtol, acctol, allow_harmonics, tobs_opt) ==
    IF IsSome(dmtol) /\ FGt(FAbs(FSub(a.dm, b.dm)), dmtol) THEN FALSE
    ELSE IF IsSome(acctol) /\ FGt(FAbs(FSub(a.acc, b.acc)), acctol) THEN FALSE
    ELSE period_test(a.period_s,
                     p_b_corr_of(a, b, FDiv(One, b.period_s),
                                 FDiv(IF IsSome(tobs_opt) THEN tobs_opt
                                      ELSE FromInt(DefaultTobs), SpeedOfLight)),
                     ptol_abs, allow_harmonics)

\* A comparator that orders by ascending SNR instead.
snr_cmp_ascending(a, b) ==
    IF ~IsFinite(a.snr) /\ ~IsFinite(b.snr) THEN "Equal"
    ELSE IF ~IsFinite(a.snr) THEN "Less"
    ELSE IF ~IsFinite(b.snr) THEN "Greater"
    ELSE IF FLt(a.snr, b.snr) THEN "Less"
    ELSE IF FGt(a.snr, b.snr) THEN "Greater"
    ELSE "Equal"

\* A comparator without the tests for a non-finite SNR: partial_cmp alone,
\* a NaN comparing equal to everything.
snr_cmp_partial(a, b) ==
    IF IsNaN(a.snr) \/ IsNaN(b.snr) THEN "Equal"
    ELSE IF FLt(b.snr, a.snr) THEN "Less"
    ELSE IF FGt(b.snr, a.snr) THEN "Greater"
    ELSE "Equal"

\* The comparator handed to rows.sort_by: non-finite SNR last, otherwise
\* descending SNR.
snr_cmp(a, b) ==
    IF ~IsFinite(a.snr) /\ ~IsFinite(b.snr) THEN "Equal"
    ELSE IF ~IsFinite(a.snr) THEN "Greater"
    ELSE IF ~IsFinite(b.snr) THEN "Less"
    ELSE IF FLt(b.snr, a.snr) THEN "Less"
    ELSE IF FGt(b.snr, a.snr) THEN "Greater"
    ELSE "Equal"

Perms(n) == {f \in [1..n -> 1..n] : \A x, y \in 1..n : x # y => f[x] # f[y]}

\* The contract of slice::sort_unstable_by: as sort_by, but elements that
\* compare equal may come out in any order.
sort_unstable_by(s) ==
    {[k \in 1..Len(s) |-> s[f[k]]] : f \in
        {g \in Perms(Len(s)) :
            \A x, y \in 1..Len(s) : x < y => snr_cmp(s[g[y]], s[g[x]]) # "Less"}}

\* slice::sort_by, by its contract: the result is a permutation of the slice
\* in which no element is followed by one the comparator orders before it,
\* and elements that compare equal keep their order (the sort is stable).
\* The set of the orders the contract allows.
sort_by(s) ==
    {[k \in 1..Len(s) |-> s[f[k]]] : f \in
        {g \in Perms(Len(s)) :
            \A x, y \in 1..Len(s) :
                x < y => /\ snr_cmp(s[g[y]], s[g[x]]) # "Less"
                         /\ (snr_cmp(s[g[x]], s[g[y]]) = "Equal" => g[x] < g[y])}}

\* ---------------------------------------------------------- src/src/main.rs
\* Candidate::new.  Of the fields, those the clustering reads or writes; nh,
\* the ddm ratios, nassoc, uuid, raw_xml, period_ms and pulse_width are
\* carried along by the code and left out here.
Candidate_new(snr, period, dm, acc, xml_file, candidate_id) ==
    [snr |-> snr, period |-> period, f0 |-> FDiv(One, period), dm |-> dm,
     acc |-> acc, xml_file |-> xml_file, candidate_id |-> candidate_id,
     related |-> <<>>, is_pivot |-> FALSE]

\* is_related: corrected_other_period
corrected_other_period_of(self, other, tobs_over_c) ==
    FDiv(One, FSub(other.f0, FMul(FMul(FSub(other.acc, self.acc), other.f0),
                                  tobs_over_c)))

\* is_related: true_period_difference
true_period_difference_of(period, corrected_other_period) ==
    IF FGt(FDiv(period, corrected_other_period), One)
    THEN FRem(period, corrected_other_period)
    ELSE FRem(corrected_other_period, period)

\* is_related: the test on the periods
period_related(period, corrected_other_period, period_thresh) ==
    \/ FLe(true_period_difference_of(period, corrected_other_period), period_thresh)
    \/ FLe(FAbs(FSub(period, corrected_other_period)), period_thresh)

\* Candidate::is_related
is_related(self, other, period_thresh, dm_thresh, tobs_over_c) ==
    IF IsSome(dm_thresh) /\ FGt(FAbs(FSub(self.dm, other.dm)), dm_thresh) THEN FALSE
    ELSE period_related(self.period,
                        corrected_other_period_of(self, other, tobs_over_c),
                        period_thresh)

\* parse_xml_file: Err when a field does not parse (`?`), else the file's
\* tsamp, fft size and candidates.
parse_xml_file(xf, filename) ==
    LET tsamp == ParseF64(xf.tsamp)
        bad(c) == \/ ~IsSome(ParseF64(c.p)) \/ ~IsSome(ParseF64(c.dm))
                  \/ ~IsSome(ParseF64(c.acc)) \/ ~IsSome(ParseF64(c.snr))
    IN IF ~IsSome(tsamp) \/ \E k \in DOMAIN xf.cands : bad(xf.cands[k])
       THEN [err |-> TRUE, filename |-> filename, fft_size |-> 0, tsamp |-> NaN,
             candidates |-> <<>>]
       ELSE [err |-> FALSE, filename |-> filename, fft_size |-> xf.fft_size,
             tsamp |-> tsamp,
             candidates |->
                 [k \in DOMAIN xf.cands |->
                     Candidate_new(ParseF64(xf.cands[k].snr), ParseF64(xf.cands[k].p),
                                   ParseF64(xf.cands[k].dm), ParseF64(xf.cands[k].acc),
                                   filename, k)]]

\* main: effective_tobs / SPEED_OF_LIGHT, from the first file
tobs_over_c_of(files) ==
    FDiv(FMul(FromInt(files[1].fft_size), files[1].tsamp), SpeedOfLight)

\* cluster_candidates: the DM bin of a candidate
dm_bin(c, dm_thresh) ==
    IF IsSome(dm_thresh) THEN FloorI64(FDiv(c.dm, dm_thresh)) ELSE 0

\* cluster_candidates: what the parallel task of index i computes, rels: the
\* j > i (of i's bin, when binning) with cands[i].is_related(&cands[j]).
cluster_task(cs, i, period_thresh, dm_thresh, tobs_over_c, bin_dm) ==
    LET idxs == IF bin_dm
                THEN SelectSeq([k \in 1..Len(cs) |-> k],
                               LAMBDA k : dm_bin(cs[k], dm_thresh) = dm_bin(cs[i], dm_thresh))
                ELSE [k \in 1..Len(cs) |-> k]
    IN SelectSeq(idxs, LAMBDA k : k > i /\ is_related(cs[i], cs[k], period_thresh,
                                                      dm_thresh, tobs_over_c))

Range(s) == {s[k] : k \in DOMAIN s}

\* shortlist_candidates: to_remove
to_remove_of(cs) ==
    UNION {Range(cs[k].related) : k \in {x \in DOMAIN cs : Len(cs[x].related) > 1}}

\* ------------------------------------------------ src/src/bin/csv_matcher.rs
\* --hmax: default_value("8")
HmaxDefault == 8

\* parse_f64_opt: None for an empty field and for "nan" in any letter case,
\* else str::parse::<f64>().ok()
parse_f64_opt(tok) ==
    IF tok.t = "empty" THEN None
    ELSE IF tok.t = "nan" THEN None
    ELSE ParseF64(tok)

\* extract_period_indices, the value of the pair it returns: a period column
\* is used as it is, an f0 column (when no period column gave a value) as
\* 1/f0 unless f0 is 0.  cols.is_period: the file has a period column, else
\* it has an f0 column.
extract_period_indices(cols, rec) ==
    LET v == parse_f64_opt(rec.p)
    IN IF cols.is_period THEN v
       ELSE IF IsSome(v) /\ ~FEq(v, Zero) THEN FDiv(One, v)
       ELSE None

\* extract_dm, the value
extract_dm(rec) == parse_f64_opt(rec.dm)
\* extract_acc, the value
extract_acc(rec) == parse_f64_opt(rec.acc)

\* main: the RowRef pushed for a record
RowRef(cols, rec, fid, idx) ==
    [file_id |-> fid, row_idx |-> idx, period |-> extract_period_indices(cols, rec),
     dm |-> extract_dm(rec), acc |-> extract_acc(rec)]

\* periods_match_abs
periods_match_abs(p1, p2, ptol, harmonics, hmax) ==
    \/ FLe(FAbs(FSub(p1, p2)), ptol)
    \/ /\ harmonics
       /\ \E k \in 2..hmax :
             \/ FLe(FAbs(FSub(p1, FMul(FromInt(k), p2))), ptol)
             \/ FLe(FAbs(FSub(p2, FMul(FromInt(k), p1))), ptol)

\* dim_match_abs
dim_match_abs(a, b, tol) ==
    IF ~IsSome(tol) THEN TRUE
    ELSE IF IsSome(a) /\ IsSome(b) THEN FLe(FAbs(FSub(a, b)), tol)
    ELSE FALSE

\* bucket_abs
bucket_abs(p, ptol) == FloorI64(FDiv(p, ptol))

\* main, the scan's test of a pair (rr, oo) of different rows: both have a
\* period, periods_match_abs, dim_match_abs on dm and on acc.
rows_match(rr, oo, ptol, dmtol, acctol, harmonics, hmax) ==
    /\ IsSome(rr.period)
    /\ IsSome(oo.period)
    /\ periods_match_abs(rr.period, oo.period, ptol, harmonics, hmax)
    /\ dim_match_abs(rr.dm, oo.dm, dmtol)
    /\ dim_match_abs(rr.acc, oo.acc, acctol)

\* neighbors_for: [b - 1, b, b + 1]
Around(b) == {Pred64(b), b, Succ64(b)}

\* neighbors_for: center, the period in the middle of bucket b0
center_of(b0, ptol) == FMul(FAdd(I64ToF(b0), FDiv(One, FromInt(2))), ptol)

\* neighbors_for: hk_b and hk_div_b, the buckets of center * k and center / k
hk_b_of(center, k, ptol) == bucket_abs(FMul(center, FromInt(k)), ptol)
hk_div_b_of(center, k, ptol) == bucket_abs(FDiv(center, FromInt(k)), ptol)

\* neighbors_for: the buckets whose +-1 neighbours are taken
neighbor_centers(b0, center, hmax, harmonics, ptol) ==
    {b0} \cup (IF harmonics
               THEN {hk_b_of(center, k, ptol) : k \in 2..hmax}
                    \cup {hk_div_b_of(center, k, ptol) : k \in 2..hmax}
               ELSE {})

\* neighbors_for, by its result: the buckets to look into for a row of
\* bucket b0 (sorted and without duplicates in the code: a set).
neighbors_for(b0, hmax, harmonics, ptol) ==
    UNION {Around(b) : b \in neighbor_centers(b0, center_of(b0, ptol), hmax,
                                              harmonics, ptol)}

\* neighbors_for: some b - 1 or b + 1 overflows i64
neighbors_overflow(b0, hmax, harmonics, ptol) ==
    \E b \in neighbor_centers(b0, center_of(b0, ptol), hmax, harmonics, ptol) :
        b = I64Max \/ b = I64Min

\* --------------------------------------------------------------- the state
VARIABLES
    prog,      \* which binary runs: "csv" (csv_candypicker), "xml" (candy_picker_rs)
    pc,        \* its position
    cfg,       \* the command line: tolerances, flags
    input,     \* the records of the input files, in reading order
    all_rows,  \* cluster_csv_multi: the rows that parsed
    rows,      \* cluster_rows: its sorted copy of the rows
    removed,   \* cluster_rows: removed[j]
    picked,    \* cluster_rows: picked
    i,         \* cluster_rows: the outer loop's index (1-based)
    j,         \* cluster_rows: the inner loop's index
    claimed,   \* history: claimed[j] = the i that executed removed[j] = true
    out,       \* the output files written so far
    status,    \* "running", "ok" or "err": how main returned
    first,     \* the outcome of an earlier cluster_rows call on the same rows
    cands,     \* main.rs: all_candidates
    todo,      \* cluster_candidates: the indices whose parallel task has not run
    results,   \* cluster_candidates: results, the (i, rels) pairs collected
    pivots,    \* shortlist_candidates: pivots
    xml_file_objects,  \* main.rs: the parsed input files
    pair,      \* the two records a match predicate is applied to
    verdict,   \* which predicate, and what its ingestion made of the records
    argv,      \* the command line as typed: the option values as text
    buckets,   \* csv_matcher: bucket -> the global indices of its rows
    matched,   \* csv_matcher: matched[gidx]
    gidx,      \* csv_matcher: the scan's index into all_rows (1-based)
    neighbor_cache  \* csv_matcher: the buckets neighbors_for returned, by b0

csvVars == <<all_rows, rows, removed, picked, i, j, claimed, first>>
xmlVars == <<cands, todo, results, pivots, xml_file_objects>>
fnVars == <<pair, verdict>>
mtVars == <<buckets, matched, gidx, neighbor_cache>>
vars == <<prog, pc, cfg, input, out, status, csvVars, xmlVars, fnVars, argv, mtVars>>

\* ------------------------------------------------------------ input domains
\* 2^-6, in decimal 0.015625
Tol64 == Num(1, 64)

\* CSV records: the fields parse_row reads (period-like, dm, acc, snr).
CsvRecords ==
    { [p |-> Num(1, 1),   dm |-> Num(10, 1), acc |-> Num(0, 1), snr |-> Num(20, 1)],
      [p |-> Num(65, 64), dm |-> Num(10, 1), acc |-> Num(0, 1), snr |-> Num(10, 1)],
      [p |-> Num(33, 32), dm |-> Num(20, 1), acc |-> Num(0, 1), snr |-> Num(10, 1)],
      [p |-> Num(2, 1),   dm |-> TNaN,       acc |-> Num(4000, 1), snr |-> TNaN],
      [p |-> Num(1, 1),   dm |-> Num(10, 1), acc |-> Num(0, 1), snr |-> TInf],
      [p |-> Num(0, 1),   dm |-> Num(10, 1), acc |-> Num(0, 1), snr |-> Num(30, 1)],
      [p |-> Num(1, 1),   dm |-> TEmpty,     acc |-> Num(0, 1), snr |-> Num(30, 1)] }

\* Command lines of csv_candypicker, after parsing.
CsvConfigs ==
    { [is_period |-> TRUE, ptol_abs |-> ParseF64(Tol64), dmtol |-> None,
       acctol |-> None, allow_harmonics |-> FALSE, tobs_opt |-> None],
      [is_period |-> TRUE, ptol_abs |-> ParseF64(Tol64), dmtol |-> FromInt(5),
       acctol |-> None, allow_harmonics |-> TRUE, tobs_opt |-> None],
      [is_period |-> FALSE, ptol_abs |-> ParseF64(Tol64), dmtol |-> None,
       acctol |-> FromInt(100), allow_harmonics |-> TRUE, tobs_opt |-> FromInt(3600)],
      [is_period |-> TRUE, ptol_abs |-> Zero, dmtol |-> None,
       acctol |-> None, allow_harmonics |-> FALSE, tobs_opt |-> None] }

SeqsUpTo(S, n) == UNION {[1..k -> S] : k \in 0..n}
\* The records with their place in the input (the rest of the original row).
Numbered(s) == [k \in DOMAIN s |-> [id |-> k, p |-> s[k].p, dm |-> s[k].dm,
                                    acc |-> s[k].acc, snr |-> s[k].snr]]

Match(a, b) ==
    periods_match(a, b, cfg.ptol_abs, cfg.dmtol, cfg.acctol, cfg.allow_harmonics,
                  cfg.tobs_opt)

\* read_one_csv: the rows parse_row accepts, in the order of the records.
RECURSIVE out_rows(_, _)
out_rows(cols, recs) ==
    IF recs = <<>> THEN <<>>
    ELSE parse_row(cols, Head(recs), "in.csv") \o out_rows(cols, Tail(recs))

\* ------------------------------------------------------------ csv_candypicker
InitCsv ==
    /\ prog = "csv"
    /\ pc = "read"
    /\ cfg \in CsvConfigs
    /\ input \in {Numbered(s) : s \in SeqsUpTo(CsvRecords, MaxRows)}
    /\ all_rows = <<>>
    /\ rows = <<>>
    /\ removed = <<>>
    /\ picked = <<>>
    /\ i = 0
    /\ j = 0
    /\ claimed = <<>>
    /\ out = <<>>
    /\ status = "running"
    /\ first = <<>>
    /\ cands = <<>>
    /\ todo = {}
    /\ results = {}
    /\ pivots = <<>>
    /\ xml_file_objects = <<>>
    /\ pair = <<>>
    /\ verdict = <<>>
    /\ argv = <<>>
    /\ buckets = <<>>
    /\ matched = <<>>
    /\ gidx = 0
    /\ neighbor_cache = <<>>

\* cluster_csv_multi: read_one_csv over the inputs, parse_row on every record.
CsvRead ==
    /\ prog = "csv" /\ pc = "read"
    /\ all_rows' = out_rows([is_period |-> cfg.is_period], input)
    /\ pc' = "parsed"
    /\ UNCHANGED <<prog, argv, mtVars, cfg, input, rows, removed, picked, i, j, claimed, out,
                   status, first, xmlVars, fnVars>>

\* A cluster_csv_multi that goes on without rows and writes an empty result.
CsvNoRowsSilent ==
    /\ prog = "csv" /\ pc = "parsed"
    /\ all_rows = <<>>
    /\ out' = Append(out, [name |-> "output", content |-> <<>>])
    /\ status' = "ok"
    /\ pc' = "done"
    /\ UNCHANGED <<prog, argv, mtVars, cfg, input, all_rows, rows, removed, picked, i, j,
                   claimed, first, xmlVars, fnVars>>

\* cluster_csv_multi: "No valid rows parsed from inputs".
CsvNoRows ==
    /\ prog = "csv" /\ pc = "parsed"
    /\ all_rows = <<>>
    /\ status' = "err"
    /\ pc' = "done"
    /\ UNCHANGED <<prog, argv, mtVars, cfg, input, all_rows, rows, removed, picked, i, j,
                   claimed, out, first, xmlVars, fnVars>>

\* cluster_rows: rows.sort_by(..), removed = vec![false; n], picked = [].
ClusterSort ==
    /\ prog = "csv" /\ pc = "parsed"
    /\ all_rows # <<>>
    /\ rows' \in sort_by(all_rows)
    /\ removed' = [k \in 1..Len(all_rows) |-> FALSE]
    /\ claimed' = [k \in 1..Len(all_rows) |-> {}]
    /\ picked' = <<>>
    /\ i' = 1
    /\ pc' = "outer"
    /\ UNCHANGED <<prog, argv, mtVars, cfg, input, all_rows, j, out, status, first, xmlVars, fnVars>>

\* for i in 0..n: if removed[i] { continue; }
ClusterSkip ==
    /\ prog = "csv" /\ pc = "outer"
    /\ i <= Len(rows)
    /\ removed[i]
    /\ i' = i + 1
    /\ UNCHANGED <<prog, argv, mtVars, pc, cfg, input, all_rows, rows, removed, picked, j,
                   claimed, out, status, first, xmlVars, fnVars>>

\* A pivot that is stored with its acceleration set to zero instead of as a
\* clone of the row.
ClusterPickRewritten ==
    /\ prog = "csv" /\ pc = "outer"
    /\ i <= Len(rows)
    /\ ~removed[i]
    /\ picked' = Append(picked, [rows[i] EXCEPT !.acc = Zero])
    /\ j' = i + 1
    /\ pc' = "inner"
    /\ UNCHANGED <<prog, argv, mtVars, cfg, input, all_rows, rows, removed, i, claimed, out,
                   status, first, xmlVars, fnVars>>

\* A pivot whose inner loop starts one row late, at i + 2.
ClusterPickSkipsNext ==
    /\ prog = "csv" /\ pc = "outer"
    /\ i <= Len(rows)
    /\ ~removed[i]
    /\ picked' = Append(picked, rows[i])
    /\ j' = i + 2
    /\ pc' = "inner"
    /\ UNCHANGED <<prog, argv, mtVars, cfg, input, all_rows, rows, removed, i, claimed, out,
                   status, first, xmlVars, fnVars>>

\* picked.push(rows[i].clone()); for j in (i + 1)..n
ClusterPick ==
    /\ prog = "csv" /\ pc = "outer"
    /\ i <= Len(rows)
    /\ ~removed[i]
    /\ picked' = Append(picked, rows[i])
    /\ j' = i + 1
    /\ pc' = "inner"
    /\ UNCHANGED <<prog, argv, mtVars, cfg, input, all_rows, rows, removed, i, claimed, out,
                   status, first, xmlVars, fnVars>>

\* if removed[j] { continue; }
ClusterInnerSkip ==
    /\ prog = "csv" /\ pc = "inner"
    /\ j <= Len(rows)
    /\ removed[j]
    /\ j' = j + 1
    /\ UNCHANGED <<prog, argv, mtVars, pc, cfg, input, all_rows, rows, removed, picked, i,
                   claimed, out, status, first, xmlVars, fnVars>>

\* An inner loop that tests rows[j] although an earlier pivot removed it.
ClusterTestRemoved ==
    /\ prog = "csv" /\ pc = "inner"
    /\ j <= Len(rows)
    /\ IF Match(rows[i], rows[j])
       THEN /\ removed' = [removed EXCEPT ![j] = TRUE]
            /\ claimed' = [claimed EXCEPT ![j] = @ \cup {i}]
       ELSE UNCHANGED <<removed, claimed>>
    /\ j' = j + 1
    /\ UNCHANGED <<prog, argv, mtVars, pc, cfg, input, all_rows, rows, picked, i, out, status,
                   first, xmlVars, fnVars>>

\* if periods_match(&rows[i], &rows[j], ..) { removed[j] = true; }
ClusterTest ==
    /\ prog = "csv" /\ pc = "inner"
    /\ j <= Len(rows)
    /\ ~removed[j]
    /\ IF Match(rows[i], rows[j])
       THEN /\ removed' = [removed EXCEPT ![j] = TRUE]
            /\ claimed' = [claimed EXCEPT ![j] = @ \cup {i}]
       ELSE UNCHANGED <<removed, claimed>>
    /\ j' = j + 1
    /\ UNCHANGED <<prog, argv, mtVars, pc, cfg, input, all_rows, rows, picked, i, out, status,
                   first, xmlVars, fnVars>>

\* the inner loop ends: the next i
ClusterInnerEnd ==
    /\ prog = "csv" /\ pc = "inner"
    /\ j > Len(rows)
    /\ i' = i + 1
    /\ pc' = "outer"
    /\ UNCHANGED <<prog, argv, mtVars, cfg, input, all_rows, rows, removed, picked, j, claimed,
                   out, status, first, xmlVars, fnVars>>

\* cluster_rows returns picked
ClusterReturn ==
    /\ prog = "csv" /\ pc = "outer"
    /\ i > Len(rows)
    /\ pc' = "clustered"
    /\ UNCHANGED <<prog, argv, mtVars, cfg, input, all_rows, rows, removed, picked, i, j,
                   claimed, out, status, first, xmlVars, fnVars>>

\* cluster_csv_multi: write_csv(output, &header, &picked, source_col); Ok(())
CsvWrite ==
    /\ prog = "csv" /\ pc = "clustered"
    /\ out' = Append(out, [name |-> "output", content |-> picked])
    /\ status' = "ok"
    /\ pc' = "done"
    /\ UNCHANGED <<prog, argv, mtVars, cfg, input, all_rows, rows, removed, picked, i, j,
                   claimed, first, xmlVars, fnVars>>

NextCsv ==
    \/ CsvRead
    \/ CsvNoRows
    \/ ClusterSort
    \/ ClusterSkip
    \/ ClusterPick
    \/ ClusterInnerSkip
    \/ ClusterTest
    \/ ClusterInnerEnd
    \/ ClusterReturn
    \/ CsvWrite

SpecCsv == InitCsv /\ [][NextCsv]_vars

\* ------------------------------------------------------------ candy_picker_rs
\* 2^-14 s and 2^-13 s
Tsamp == Num(1, 16384)
TsampOther == Num(1, 8192)
\* 2^23 samples
FftSize == Pow2(23)

\* <candidate> blocks: the fields Candidate::new gets (period, dm, acc, snr).
XmlRecords ==
    { [p |-> Num(1, 1),   dm |-> Num(9, 1),  acc |-> Num(0, 1), snr |-> Num(10, 1)],
      [p |-> Num(65, 64), dm |-> Num(11, 1), acc |-> Num(0, 1), snr |-> Num(20, 1)],
      [p |-> Num(33, 32), dm |-> Num(21, 1), acc |-> Num(0, 1), snr |-> Num(30, 1)],
      [p |-> Num(0, 1),   dm |-> Num(9, 1),  acc |-> Num(0, 1), snr |-> Num(5, 1)] }

\* The acquisition parameters of the two input files: they agree, they
\* differ in tsamp, the second file's tsamp is not a number.
XmlHeaders ==
    { << [tsamp |-> Tsamp, fft_size |-> FftSize],
         [tsamp |-> Tsamp, fft_size |-> FftSize] >>,
      << [tsamp |-> Tsamp, fft_size |-> FftSize],
         [tsamp |-> TsampOther, fft_size |-> FftSize] >>,
      << [tsamp |-> Tsamp, fft_size |-> FftSize],
         [tsamp |-> TJunk, fft_size |-> FftSize] >> }

\* The input files: the candidates s shared out over the files of h, the
\* first file taking the first half.
XmlFiles(h, s) ==
    LET half == IF Len(h) = 1 THEN Len(s) ELSE (Len(s) + 1) \div 2
    IN [f \in DOMAIN h |->
          [tsamp |-> h[f].tsamp, fft_size |-> h[f].fft_size,
           cands |-> IF f = 1 THEN SubSeq(s, 1, half)
                     ELSE SubSeq(s, half + 1, Len(s))]]

\* Command lines of candy_picker_rs, after parsing.
XmlConfigs ==
    { [period_thresh |-> ParseF64(Tol64), dm_thresh |-> None, bin_dm |-> FALSE],
      [period_thresh |-> ParseF64(Tol64), dm_thresh |-> FromInt(5), bin_dm |-> FALSE],
      [period_thresh |-> ParseF64(Tol64), dm_thresh |-> FromInt(5), bin_dm |-> TRUE] }

InitXml ==
    /\ prog = "xml"
    /\ pc = "read"
    /\ cfg \in XmlConfigs
    /\ input \in {XmlFiles(h, s) : h \in XmlHeaders, s \in SeqsUpTo(XmlRecords, MaxCands)}
    /\ all_rows = <<>>
    /\ rows = <<>>
    /\ removed = <<>>
    /\ picked = <<>>
    /\ i = 0
    /\ j = 0
    /\ claimed = <<>>
    /\ out = <<>>
    /\ status = "running"
    /\ first = <<>>
    /\ cands = <<>>
    /\ todo = {}
    /\ results = {}
    /\ pivots = <<>>
    /\ xml_file_objects = <<>>
    /\ pair = <<>>
    /\ verdict = <<>>
    /\ argv = <<>>
    /\ buckets = <<>>
    /\ matched = <<>>
    /\ gidx = 0
    /\ neighbor_cache = <<>>

RECURSIVE Concat(_)
Concat(ss) == IF ss = <<>> THEN <<>> ELSE Head(ss) \o Concat(Tail(ss))

\* main: for f in &xml_files { let xf = parse_xml_file(f)?; .. }
XmlParse ==
    /\ prog = "xml" /\ pc = "read"
    /\ LET parsed == [f \in DOMAIN input |-> parse_xml_file(input[f], f)]
       IN IF \E f \in DOMAIN input : parsed[f].err
          THEN /\ status' = "err"
               /\ pc' = "done"
               /\ UNCHANGED <<cands, xml_file_objects>>
          ELSE /\ cands' = Concat([f \in DOMAIN input |-> parsed[f].candidates])
               /\ xml_file_objects' = parsed
               /\ pc' = "parsed"
               /\ UNCHANGED status
    /\ UNCHANGED <<prog, argv, mtVars, cfg, input, out, csvVars, fnVars, todo, results, pivots>>

\* main: "No candidates found"
XmlNoCands ==
    /\ prog = "xml" /\ pc = "parsed"
    /\ cands = <<>>
    /\ status' = "err"
    /\ pc' = "done"
    /\ UNCHANGED <<prog, argv, mtVars, cfg, input, out, csvVars, fnVars, xmlVars>>

\* A comparison of the files' headers that looks at the fft size only.
HeadersDifferFftOnly ==
    \E f \in 2..Len(xml_file_objects) :
        xml_file_objects[f].fft_size # xml_file_objects[1].fft_size

\* main: some file's fft_size or tsamp differs from the first file's
HeadersDiffer ==
    \E f \in 2..Len(xml_file_objects) :
        \/ xml_file_objects[f].fft_size # xml_file_objects[1].fft_size
        \/ ~FEq(xml_file_objects[f].tsamp, xml_file_objects[1].tsamp)

\* main: "fft size and tsamp differ across files"
XmlHeaderMismatch ==
    /\ prog = "xml" /\ pc = "parsed"
    /\ cands # <<>>
    /\ HeadersDiffer
    /\ status' = "err"
    /\ pc' = "done"
    /\ UNCHANGED <<prog, argv, mtVars, cfg, input, out, csvVars, fnVars, xmlVars>>

\* cluster_candidates is entered: one parallel task per index
XmlClusterStart ==
    /\ prog = "xml" /\ pc = "parsed"
    /\ cands # <<>>
    /\ ~HeadersDiffer
    /\ todo' = DOMAIN cands
    /\ results' = {}
    /\ pc' = "tasks"
    /\ UNCHANGED <<prog, argv, mtVars, cfg, input, out, status, csvVars, fnVars, cands, pivots,
                   xml_file_objects>>

\* A task whose result is filed under the place at which it finished
\* instead of under its own index.
XmlTaskByArrival ==
    /\ prog = "xml" /\ pc = "tasks"
    /\ \E t \in todo :
          /\ results' = results \cup
                 {<<Cardinality(results) + 1,
                    cluster_task(cands, t, cfg.period_thresh, cfg.dm_thresh,
                                 tobs_over_c_of(xml_file_objects), cfg.bin_dm)>>}
          /\ todo' = todo \ {t}
    /\ UNCHANGED <<prog, argv, mtVars, pc, cfg, input, out, status, csvVars, fnVars, cands, pivots,
                   xml_file_objects>>

\* one task of the parallel iterator runs: (i, rels)
XmlTask ==
    /\ prog = "xml" /\ pc = "tasks"
    /\ \E t \in todo :
          /\ results' = results \cup
                 {<<t, cluster_task(cands, t, cfg.period_thresh, cfg.dm_thresh,
                                    tobs_over_c_of(xml_file_objects), cfg.bin_dm)>>}
          /\ todo' = todo \ {t}
    /\ UNCHANGED <<prog, argv, mtVars, pc, cfg, input, out, status, csvVars, fnVars, cands, pivots,
                   xml_file_objects>>

\* for (i, rels) in results { cands[i].related = rels; }
XmlCollect ==
    /\ prog = "xml" /\ pc = "tasks"
    /\ todo = {}
    /\ cands' = [k \in DOMAIN cands |->
                    [cands[k] EXCEPT !.related = (CHOOSE r \in results : r[1] = k)[2]]]
    /\ pc' = "clustered"
    /\ UNCHANGED <<prog, argv, mtVars, cfg, input, out, status, csvVars, fnVars, todo, results, pivots,
                   xml_file_objects>>

\* shortlist_candidates
XmlShortlist ==
    /\ prog = "xml" /\ pc = "clustered"
    /\ pivots' = SelectSeq([k \in 1..Len(cands) |-> k],
                           LAMBDA k : k \notin to_remove_of(cands))
    /\ cands' = [k \in DOMAIN cands |->
                    [cands[k] EXCEPT !.is_pivot = k \notin to_remove_of(cands)]]
    /\ pc' = "shortlisted"
    /\ UNCHANGED <<prog, argv, mtVars, cfg, input, out, status, csvVars, fnVars, todo, results,
                   xml_file_objects>>

\* save_candidates_csv(&all_candidates, &pivots, "pivots.csv")
XmlSaveCsv ==
    /\ prog = "xml" /\ pc = "shortlisted"
    /\ out' = Append(out, [name |-> "pivots.csv",
                           content |-> [k \in DOMAIN pivots |-> cands[pivots[k]]]])
    /\ pc' = "saved"
    /\ UNCHANGED <<prog, argv, mtVars, cfg, input, status, csvVars, fnVars, xmlVars>>

\* write_updated_xmls for every input file: *_picked.xml, *_rejected.xml
XmlWriteXmls ==
    /\ prog = "xml" /\ pc = "saved"
    /\ LET id(c) == <<c.xml_file, c.candidate_id>>
           pivot_map == {id(cands[pivots[k]]) : k \in DOMAIN pivots}
           picked_of(xf) == SelectSeq(xf.candidates, LAMBDA c : id(c) \in pivot_map)
           rejected_of(xf) == SelectSeq(xf.candidates, LAMBDA c : id(c) \notin pivot_map)
       IN out' = out \o Concat([f \in DOMAIN xml_file_objects |->
                    << [name |-> <<f, "picked">>,
                        content |-> picked_of(xml_file_objects[f])],
                       [name |-> <<f, "rejected">>,
                        content |-> rejected_of(xml_file_objects[f])] >>])
    /\ status' = "ok"
    /\ pc' = "done"
    /\ UNCHANGED <<prog, argv, mtVars, cfg, input, csvVars, fnVars, xmlVars>>

NextXml ==
    \/ XmlParse
    \/ XmlNoCands
    \/ XmlHeaderMismatch
    \/ XmlClusterStart
    \/ XmlTask
    \/ XmlCollect
    \/ XmlShortlist
    \/ XmlSaveCsv
    \/ XmlWriteXmls

SpecXml == InitXml /\ [][NextXml]_vars

\* cluster_candidates run on one thread, the indices in rising order: the
\* related list of index i, rels filled by the loop over j = i+1 .. n (over
\* the later indices of i's DM bin when binning).
RECURSIVE SequentialRelated(_, _, _)
SequentialRelated(cs, i0, j0) ==
    IF j0 > Len(cs) THEN <<>>
    ELSE IF /\ cfg.bin_dm => dm_bin(cs[j0], cfg.dm_thresh) = dm_bin(cs[i0], cfg.dm_thresh)
            /\ is_related(cs[i0], cs[j0], cfg.period_thresh, cfg.dm_thresh,
                          tobs_over_c_of(xml_file_objects))
         THEN <<j0>> \o SequentialRelated(cs, i0, j0 + 1)
         ELSE SequentialRelated(cs, i0, j0 + 1)

\* shortlist_candidates after that run: the indices, in rising order, that
\* stand in no related list of more than one entry.
RECURSIVE SequentialPivots(_, _)
SequentialPivots(cs, k0) ==
    IF k0 > Len(cs) THEN <<>>
    ELSE IF \E x \in DOMAIN cs :
               LET rels == SequentialRelated(cs, x, x + 1)
               IN Len(rels) > 1 /\ \E y \in DOMAIN rels : rels[y] = k0
         THEN SequentialPivots(cs, k0 + 1)
         ELSE <<k0>> \o SequentialPivots(cs, k0 + 1)

\* ------------------------------------------------- the match predicates
\* Records the three predicates are applied to: the fields of one candidate
\* as text (period-like column, dm, acc, snr).
MatchRecords ==
    { [p |-> Num(1, 1),     dm |-> Num(10, 1), acc |-> Num(0, 1),    snr |-> Num(10, 1)],
      [p |-> Num(95, 64),   dm |-> Num(10, 1), acc |-> Num(0, 1),    snr |-> Num(10, 1)],
      [p |-> Num(189, 128), dm |-> Num(12, 1), acc |-> Num(0, 1),    snr |-> Num(10, 1)],
      [p |-> Num(4, 3),     dm |-> Num(10, 1), acc |-> Num(0, 1),    snr |-> Num(10, 1)],
      [p |-> Num(1, 1),     dm |-> Num(10, 1), acc |-> Num(20819, 1), snr |-> Num(10, 1)],
      [p |-> Num(1, 1),     dm |-> TNaN,       acc |-> Num(0, 1),    snr |-> Num(10, 1)],
      [p |-> Num(1, 1),     dm |-> Num(10, 1), acc |-> TEmpty,       snr |-> Num(10, 1)],
      [p |-> Num(0, 1),     dm |-> Num(10, 1), acc |-> Num(0, 1),    snr |-> Num(10, 1)],
      [p |-> Num(-1, 1),    dm |-> Num(10, 1), acc |-> Num(0, 1),    snr |-> Num(10, 1)],
      [p |-> TInf,          dm |-> Num(10, 1), acc |-> Num(0, 1),    snr |-> Num(10, 1)],
      [p |-> Num(2, 1),     dm |-> Num(10, 1), acc |-> Num(0, 1),    snr |-> Num(10, 1)],
      [p |-> Num(1, 1),     dm |-> Num(10, 1), acc |-> Num(1200000, 1), snr |-> Num(10, 1)] }

\* Tolerances and flags the predicates are applied under.
MatchConfigs ==
    { [is_period |-> TRUE, ptol_abs |-> Zero, dmtol |-> None,
       acctol |-> None, allow_harmonics |-> FALSE, tobs_opt |-> None],
      [is_period |-> TRUE, ptol_abs |-> ParseF64(Num(1, 128)), dmtol |-> FromInt(5),
       acctol |-> None, allow_harmonics |-> FALSE, tobs_opt |-> None],
      [is_period |-> TRUE, ptol_abs |-> ParseF64(Tol64), dmtol |-> None,
       acctol |-> FromInt(30000), allow_harmonics |-> TRUE, tobs_opt |-> FromInt(3600)],
      [is_period |-> FALSE, ptol_abs |-> ParseF64(Tol64), dmtol |-> FromInt(5),
       acctol |-> FromInt(100), allow_harmonics |-> TRUE, tobs_opt |-> None],
      [is_period |-> TRUE, ptol_abs |-> FromInt(2), dmtol |-> None,
       acctol |-> None, allow_harmonics |-> FALSE, tobs_opt |-> None] }

InitMatch ==
    /\ prog = "match"
    /\ pc = "ready"
    /\ cfg \in MatchConfigs
    /\ pair \in MatchRecords \X MatchRecords
    /\ verdict = <<>>
    /\ input = <<>>
    /\ all_rows = <<>>
    /\ rows = <<>>
    /\ removed = <<>>
    /\ picked = <<>>
    /\ i = 0
    /\ j = 0
    /\ claimed = <<>>
    /\ out = <<>>
    /\ status = "running"
    /\ first = <<>>
    /\ cands = <<>>
    /\ todo = {}
    /\ results = {}
    /\ pivots = <<>>
    /\ xml_file_objects = <<>>
    /\ argv = <<>>
    /\ buckets = <<>>
    /\ matched = <<>>
    /\ gidx = 0
    /\ neighbor_cache = <<>>

\* csv_cluster.rs: both records through parse_row (Option<RowView> as a
\* sequence of at most one row)
IngestRows ==
    /\ prog = "match" /\ pc = "ready"
    /\ verdict' = [fn |-> "periods_match",
                   a |-> parse_row([is_period |-> cfg.is_period], pair[1], "a.csv"),
                   b |-> parse_row([is_period |-> cfg.is_period], pair[2], "b.csv")]
    /\ pc' = "ingested"
    /\ UNCHANGED <<prog, argv, mtVars, cfg, input, out, status, csvVars, xmlVars, pair>>

\* main.rs: both records, as the candidates of one file, through
\* parse_xml_file; nothing comes out when it returns Err
IngestCandidates ==
    /\ prog = "match" /\ pc = "ready"
    /\ LET xf == parse_xml_file([tsamp |-> Tsamp, fft_size |-> FftSize,
                                 cands |-> pair], 1)
       IN verdict' = [fn |-> "is_related",
                      a |-> IF xf.err THEN <<>> ELSE <<xf.candidates[1]>>,
                      b |-> IF xf.err THEN <<>> ELSE <<xf.candidates[2]>>]
    /\ pc' = "ingested"
    /\ UNCHANGED <<prog, argv, mtVars, cfg, input, out, status, csvVars, xmlVars, pair>>

\* csv_matcher.rs: the records as rows of two files; a row without a period
\* gets no bucket and is never tested
IngestRowRefs ==
    /\ prog = "match" /\ pc = "ready"
    /\ LET a == RowRef([is_period |-> cfg.is_period], pair[1], 1, 1)
           b == RowRef([is_period |-> cfg.is_period], pair[2], 2, 1)
       IN verdict' = [fn |-> "rows_match",
                      a |-> IF IsSome(a.period) THEN <<a>> ELSE <<>>,
                      b |-> IF IsSome(b.period) THEN <<b>> ELSE <<>>]
    /\ pc' = "ingested"
    /\ UNCHANGED <<prog, argv, mtVars, cfg, input, out, status, csvVars, xmlVars, pair>>

\* effective_tobs / SPEED_OF_LIGHT of the file the two candidates came from
PairTobsOverC == tobs_over_c_of(<<[fft_size |-> FftSize, tsamp |-> ParseF64(Tsamp)]>>)

\* The predicate of verdict.fn under the configuration.
Matches(x, y) ==
    CASE verdict.fn = "periods_match" -> Match(x, y)
      [] verdict.fn = "is_related" ->
            is_related(x, y, cfg.ptol_abs, cfg.dmtol, PairTobsOverC)
      [] verdict.fn = "rows_match" ->
            rows_match(x, y, cfg.ptol_abs, cfg.dmtol, cfg.acctol,
                       cfg.allow_harmonics, HmaxDefault)

\* The predicate is applied to what came out of the ingestion: to (a, b), to
\* (b, a) and to (a, a).
ApplyPredicate ==
    /\ prog = "match" /\ pc = "ingested"
    /\ verdict.a # <<>>
    /\ out' = << [fn |-> verdict.fn,
                  ab |-> verdict.b # <<>> /\ Matches(verdict.a[1], verdict.b[1]),
                  ba |-> verdict.b # <<>> /\ Matches(verdict.b[1], verdict.a[1]),
                  aa |-> Matches(verdict.a[1], verdict.a[1])] >>
    /\ pc' = "applied"
    /\ UNCHANGED <<prog, argv, mtVars, cfg, input, status, csvVars, xmlVars, fnVars>>

NextMatch ==
    \/ IngestRows
    \/ IngestCandidates
    \/ IngestRowRefs
    \/ ApplyPredicate

SpecMatch == InitMatch /\ [][NextMatch]_vars

\* ---------------------------------------------------------------- csv_matcher
\* The most records of the input files of csv_matcher, taken together.
MaxFileRows == 3

\* CSV records of csv_matcher: the period, dm and acc columns as text.  1 and
\* 127/64 are a harmonic pair (k = 2) at tolerance 1/64; 255/16384 and 1/32
\* differ by a little more than 1/64.
MatcherRecords ==
    { [p |-> Num(1, 1),       dm |-> Num(10, 1), acc |-> Num(0, 1)],
      [p |-> Num(1, 1),       dm |-> Num(10, 1), acc |-> Num(1, 1)],
      [p |-> Num(127, 64),    dm |-> Num(10, 1), acc |-> Num(2, 1)],
      [p |-> Num(255, 16384), dm |-> Num(10, 1), acc |-> Num(0, 1)],
      [p |-> Num(1, 32),      dm |-> TEmpty,     acc |-> Num(0, 1)],
      [p |-> TInf,            dm |-> Num(10, 1), acc |-> Num(0, 1)],
      [p |-> TEmpty,          dm |-> Num(10, 1), acc |-> Num(0, 1)] }

\* The input files: one file (too few), or two files that share out the
\* records s, the first file taking the first n.
MatcherInputs ==
    { <<f>> : f \in SeqsUpTo(MatcherRecords, 1) }
    \cup UNION { { <<SubSeq(s, 1, n), SubSeq(s, n + 1, Len(s))>> : n \in 0..Len(s) } :
                   s \in SeqsUpTo(MatcherRecords, MaxFileRows) }

\* Command lines of csv_matcher, after parsing.
MatcherConfigs ==
    { [ptol |-> ParseF64(Tol64), dmtol |-> None, acctol |-> None,
       harmonics |-> FALSE, hmax |-> HmaxDefault],
      [ptol |-> ParseF64(Tol64), dmtol |-> FromInt(1), acctol |-> FromInt(1),
       harmonics |-> TRUE, hmax |-> 3] }

InitMatcher ==
    /\ prog = "matcher"
    /\ pc = "read"
    /\ cfg \in MatcherConfigs
    /\ input \in MatcherInputs
    /\ all_rows = <<>>
    /\ rows = <<>>
    /\ removed = <<>>
    /\ picked = <<>>
    /\ i = 0
    /\ j = 0
    /\ claimed = <<>>
    /\ out = <<>>
    /\ status = "running"
    /\ first = <<>>
    /\ cands = <<>>
    /\ todo = {}
    /\ results = {}
    /\ pivots = <<>>
    /\ xml_file_objects = <<>>
    /\ pair = <<>>
    /\ verdict = <<>>
    /\ argv = <<>>
    /\ buckets = <<>>
    /\ matched = <<>>
    /\ gidx = 0
    /\ neighbor_cache = <<>>

\* main: the RowRefs of the records of all files, in reading order
row_refs(files) ==
    Concat([f \in DOMAIN files |->
               [k \in DOMAIN files[f] |->
                   RowRef([is_period |-> TRUE], files[f][k], f, k)]])

\* main: the bucket index, bucket -> the global indices of the rows with a
\* period in it, in the order of all_rows
bucket_index(rs, ptol) ==
    [b \in {bucket_abs(rs[k].period, ptol) :
               k \in {x \in DOMAIN rs : IsSome(rs[x].period)}} |->
        SelectSeq([k \in 1..Len(rs) |-> k],
                  LAMBDA k : IsSome(rs[k].period) /\ bucket_abs(rs[k].period, ptol) = b)]

\* main: "Provide at least two CSV inputs for cross-file matching"
MatcherFewInputs ==
    /\ prog = "matcher" /\ pc = "read"
    /\ Len(input) < 2
    /\ status' = "err"
    /\ pc' = "done"
    /\ UNCHANGED <<prog, argv, cfg, input, out, csvVars, xmlVars, fnVars, mtVars>>

\* main: read_csv for every input, a RowRef for every record
MatcherRead ==
    /\ prog = "matcher" /\ pc = "read"
    /\ Len(input) >= 2
    /\ all_rows' = row_refs(input)
    /\ pc' = "loaded"
    /\ UNCHANGED <<prog, argv, cfg, input, out, status, rows, removed, picked, i, j,
                   claimed, first, xmlVars, fnVars, mtVars>>

\* main: the bucket index; matched = vec![false; all_rows.len()]
MatcherIndex ==
    /\ prog = "matcher" /\ pc = "loaded"
    /\ buckets' = bucket_index(all_rows, cfg.ptol)
    /\ matched' = [k \in DOMAIN all_rows |-> FALSE]
    /\ gidx' = 1
    /\ neighbor_cache' = <<>>
    /\ pc' = "scan"
    /\ UNCHANGED <<prog, argv, cfg, input, out, status, csvVars, xmlVars, fnVars>>

\* the scan: let Some(p1) = rr.period else { continue; }
ScanSkip ==
    /\ prog = "matcher" /\ pc = "scan"
    /\ gidx <= Len(all_rows)
    /\ ~IsSome(all_rows[gidx].period)
    /\ gidx' = gidx + 1
    /\ UNCHANGED <<prog, argv, pc, cfg, input, out, status, csvVars, xmlVars, fnVars,
                   buckets, matched, neighbor_cache>>

\* A scan that also pairs a row with the rows of its own file.
scan_hits_any_file(rs, bk, g, neigh, c) ==
    {h \in DOMAIN rs :
        /\ h # g
        /\ \E nb \in neigh \cap DOMAIN bk : h \in Range(bk[nb])
        /\ rows_match(rs[g], rs[h], c.ptol, c.dmtol, c.acctol, c.harmonics, c.hmax)}

\* the scan: the rows other than g, of another file, listed in a bucket of
\* neigh, that pass periods_match_abs and dim_match_abs with row g
scan_hits(rs, bk, g, neigh, c) ==
    {h \in DOMAIN rs :
        /\ h # g
        /\ rs[h].file_id # rs[g].file_id
        /\ \E nb \in neigh \cap DOMAIN bk : h \in Range(bk[nb])
        /\ rows_match(rs[g], rs[h], c.ptol, c.dmtol, c.acctol, c.harmonics, c.hmax)}

\* matched[gidx] = true; matched[other_gidx] = true, for every hit
mark(m, g, hits) == [k \in DOMAIN m |-> m[k] \/ k \in hits \/ (k = g /\ hits # {})]

\* neighbors_for through its cache
cached_neighbors(cache, b0, c) ==
    IF b0 \in DOMAIN cache THEN cache[b0]
    ELSE neighbors_for(b0, c.hmax, c.harmonics, c.ptol)

\* the scan, one row with a period: its bucket, neighbors_for, the tests
ScanRow ==
    /\ prog = "matcher" /\ pc = "scan"
    /\ gidx <= Len(all_rows)
    /\ IsSome(all_rows[gidx].period)
    /\ neighbor_cache' =
          [b \in DOMAIN neighbor_cache \cup {bucket_abs(all_rows[gidx].period, cfg.ptol)} |->
              cached_neighbors(neighbor_cache, b, cfg)]
    /\ matched' = mark(matched, gidx,
                       scan_hits(all_rows, buckets, gidx,
                                 cached_neighbors(neighbor_cache,
                                     bucket_abs(all_rows[gidx].period, cfg.ptol), cfg),
                                 cfg))
    /\ gidx' = gidx + 1
    /\ UNCHANGED <<prog, argv, pc, cfg, input, out, status, csvVars, xmlVars, fnVars,
                   buckets>>

\* the scan, a row for which neighbors_for overflows i64 in a build that
\* checks overflow: the thread panics
ScanOverflow ==
    /\ prog = "matcher" /\ pc = "scan"
    /\ gidx <= Len(all_rows)
    /\ IsSome(all_rows[gidx].period)
    /\ bucket_abs(all_rows[gidx].period, cfg.ptol) \notin DOMAIN neighbor_cache
    /\ neighbors_overflow(bucket_abs(all_rows[gidx].period, cfg.ptol), cfg.hmax,
                          cfg.harmonics, cfg.ptol)
    /\ status' = "panic"
    /\ pc' = "done"
    /\ UNCHANGED <<prog, argv, cfg, input, out, csvVars, xmlVars, fnVars, mtVars>>

\* main: per_file_selected[fid], the row_idx of the matched rows of a file
per_file_selected(rs, m, fid) ==
    SelectSeq([g \in 1..Len(rs) |-> IF m[g] /\ rs[g].file_id = fid
                                     THEN rs[g].row_idx ELSE 0],
              LAMBDA rid : rid # 0)

\* main: the rows written for a file
matched_rows(recs, sel) == [n \in DOMAIN sel |-> recs[sel[n]]]

\* main: per file, the matched rows written under the file's header; Ok(())
MatcherWrite ==
    /\ prog = "matcher" /\ pc = "scan"
    /\ gidx > Len(all_rows)
    /\ out' = [f \in DOMAIN input |->
                  [name |-> <<f, "matched">>,
                   content |-> matched_rows(input[f],
                                            per_file_selected(all_rows, matched, f))]]
    /\ status' = "ok"
    /\ pc' = "done"
    /\ UNCHANGED <<prog, argv, cfg, input, csvVars, xmlVars, fnVars, mtVars>>

NextMatcher ==
    \/ MatcherFewInputs
    \/ MatcherRead
    \/ MatcherIndex
    \/ ScanSkip
    \/ ScanRow
    \/ ScanOverflow
    \/ MatcherWrite

SpecMatcher == InitMatcher /\ [][NextMatcher]_vars

\* ------------------------------------------------------- the command lines
\* An option that is not on the command line.
TAbsent == [t |-> "absent", n |-> 0, d |-> 1]

\* str::parse::<u32>() / ::<usize>() of an option value, -1 for Err
ParseUInt(tok) == IF tok.t = "num" /\ tok.d = 1 /\ tok.n >= 0 THEN tok.n ELSE -1

\* Command lines of csv_candypicker: --ptol, --dmtol, --acctol, --tobs as
\* text, --no-harmonics; is_period is the header of the input files (p0_new
\* or f0_opt).
CsvCommandLines ==
    { [is_period |-> TRUE, ptol |-> Tol64, dmtol |-> Num(5, 1), acctol |-> TAbsent,
       tobs |-> TAbsent, no_harmonics |-> FALSE],
      [is_period |-> TRUE, ptol |-> TJunk, dmtol |-> TAbsent, acctol |-> TAbsent,
       tobs |-> TAbsent, no_harmonics |-> FALSE],
      [is_period |-> TRUE, ptol |-> Tol64, dmtol |-> TJunk, acctol |-> TAbsent,
       tobs |-> TJunk, no_harmonics |-> TRUE],
      [is_period |-> TRUE, ptol |-> Num(0, 1), dmtol |-> TAbsent, acctol |-> Num(-1, 1),
       tobs |-> Num(3600, 1), no_harmonics |-> TRUE] }

\* Command lines of candy_picker_rs: -p, -d, -n as text, --bin-dm.
XmlCommandLines ==
    { [period_thresh |-> Tol64, dm_thresh |-> Num(5, 1), ncpus |-> TAbsent,
       bin_dm |-> TRUE],
      [period_thresh |-> TJunk, dm_thresh |-> TAbsent, ncpus |-> TAbsent,
       bin_dm |-> FALSE],
      [period_thresh |-> Tol64, dm_thresh |-> TJunk, ncpus |-> TAbsent,
       bin_dm |-> FALSE],
      [period_thresh |-> Tol64, dm_thresh |-> TAbsent, ncpus |-> TJunk,
       bin_dm |-> FALSE],
      [period_thresh |-> Num(-1, 64), dm_thresh |-> Num(0, 1), ncpus |-> Num(2, 1),
       bin_dm |-> FALSE] }

\* Command lines of csv_matcher: --ptol, --dmtol, --acctol, --hmax as text,
\* --harmonics.
MatcherCommandLines ==
    { [ptol |-> Tol64, dmtol |-> Num(1, 1), acctol |-> TAbsent, harmonics |-> TRUE,
       hmax |-> TAbsent],
      [ptol |-> TJunk, dmtol |-> TAbsent, acctol |-> TAbsent, harmonics |-> FALSE,
       hmax |-> TAbsent],
      [ptol |-> Tol64, dmtol |-> TJunk, acctol |-> TAbsent, harmonics |-> FALSE,
       hmax |-> TAbsent],
      [ptol |-> Tol64, dmtol |-> TAbsent, acctol |-> TJunk, harmonics |-> FALSE,
       hmax |-> TAbsent],
      [ptol |-> Tol64, dmtol |-> TAbsent, acctol |-> TAbsent, harmonics |-> TRUE,
       hmax |-> TJunk],
      [ptol |-> Num(-1, 64), dmtol |-> TAbsent, acctol |-> Num(0, 1),
       harmonics |-> FALSE, hmax |-> Num(2, 1)] }

\* A binary is started: its command line and its input files.
InitArgs ==
    /\ \/ /\ prog = "csv"
          /\ argv \in CsvCommandLines
          /\ input \in {Numbered(s) : s \in SeqsUpTo(CsvRecords, MaxRows)}
       \/ /\ prog = "xml"
          /\ argv \in XmlCommandLines
          /\ input \in {XmlFiles(h, s) : h \in XmlHeaders,
                                         s \in SeqsUpTo(XmlRecords, MaxCands)}
       \/ /\ prog = "matcher"
          /\ argv \in MatcherCommandLines
          /\ input \in MatcherInputs
    /\ pc = "args"
    /\ cfg = <<>>
    /\ all_rows = <<>>
    /\ rows = <<>>
    /\ removed = <<>>
    /\ picked = <<>>
    /\ i = 0
    /\ j = 0
    /\ claimed = <<>>
    /\ out = <<>>
    /\ status = "running"
    /\ first = <<>>
    /\ cands = <<>>
    /\ todo = {}
    /\ results = {}
    /\ pivots = <<>>
    /\ xml_file_objects = <<>>
    /\ pair = <<>>
    /\ verdict = <<>>
    /\ buckets = <<>>
    /\ matched = <<>>
    /\ gidx = 0
    /\ neighbor_cache = <<>>

\* csv_candypicker, main: ptol by parse()?, dmtol, acctol and tobs by
\* and_then(|s| s.parse().ok())
CsvArgs ==
    /\ prog = "csv" /\ pc = "args"
    /\ IF ~IsSome(ParseF64(argv.ptol))
       THEN /\ status' = "err"
            /\ pc' = "done"
            /\ UNCHANGED cfg
       ELSE /\ cfg' = [is_period |-> argv.is_period,
                       ptol_abs |-> ParseF64(argv.ptol),
                       dmtol |-> ParseF64(argv.dmtol),
                       acctol |-> ParseF64(argv.acctol),
                       allow_harmonics |-> ~argv.no_harmonics,
                       tobs_opt |-> ParseF64(argv.tobs)]
            /\ pc' = "read"
            /\ UNCHANGED status
    /\ UNCHANGED <<prog, argv, input, out, csvVars, xmlVars, fnVars, mtVars>>

\* candy_picker_rs, main: period_thresh and ncpus by parse()?, dm_thresh by
\* map(|s| s.parse().unwrap()), which panics on text that is no number
XmlArgs ==
    /\ prog = "xml" /\ pc = "args"
    /\ IF ~IsSome(ParseF64(argv.period_thresh))
       THEN /\ status' = "err"
            /\ pc' = "done"
            /\ UNCHANGED cfg
       ELSE IF argv.dm_thresh # TAbsent /\ ~IsSome(ParseF64(argv.dm_thresh))
       THEN /\ status' = "panic"
            /\ pc' = "done"
            /\ UNCHANGED cfg
       ELSE IF argv.ncpus # TAbsent /\ ParseUInt(argv.ncpus) < 0
       THEN /\ status' = "err"
            /\ pc' = "done"
            /\ UNCHANGED cfg
       ELSE /\ cfg' = [period_thresh |-> ParseF64(argv.period_thresh),
                       dm_thresh |-> ParseF64(argv.dm_thresh),
                       bin_dm |-> argv.bin_dm]
            /\ pc' = "read"
            /\ UNCHANGED status
    /\ UNCHANGED <<prog, argv, input, out, csvVars, xmlVars, fnVars, mtVars>>

\* csv_matcher, main: ptol and hmax by parse().context(..)?, dmtol and acctol
\* by map(|s| s.parse().context(..)).transpose()?
MatcherArgs ==
    /\ prog = "matcher" /\ pc = "args"
    /\ IF \/ ~IsSome(ParseF64(argv.ptol))
          \/ argv.dmtol # TAbsent /\ ~IsSome(ParseF64(argv.dmtol))
          \/ argv.acctol # TAbsent /\ ~IsSome(ParseF64(argv.acctol))
          \/ argv.hmax # TAbsent /\ ParseUInt(argv.hmax) < 0
       THEN /\ status' = "err"
            /\ pc' = "done"
            /\ UNCHANGED cfg
       ELSE /\ cfg' = [ptol |-> ParseF64(argv.ptol),
                       dmtol |-> ParseF64(argv.dmtol),
                       acctol |-> ParseF64(argv.acctol),
                       harmonics |-> argv.harmonics,
                       hmax |-> IF argv.hmax = TAbsent THEN HmaxDefault
                                ELSE ParseUInt(argv.hmax)]
            /\ pc' = "read"
            /\ UNCHANGED status
    /\ UNCHANGED <<prog, argv, input, out, csvVars, xmlVars, fnVars, mtVars>>

NextArgs ==
    \/ CsvArgs
    \/ XmlArgs
    \/ MatcherArgs
    \/ NextCsv
    \/ NextXml
    \/ NextMatcher

SpecArgs == InitArgs /\ [][NextArgs]_vars

\* ------------------------------------------------- cluster_rows, called twice
\* cluster_rows is called a second time on the same rows under the same
\* configuration; `first` keeps what the first call made of them.
Rerun ==
    /\ prog = "csv" /\ pc = "clustered"
    /\ first = <<>>
    /\ first' = << [rows |-> rows, picked |-> picked, claimed |-> claimed] >>
    /\ pc' = "parsed"
    /\ UNCHANGED <<prog, argv, mtVars, cfg, input, all_rows, rows, removed, picked, i, j,
                   claimed, out, status, xmlVars, fnVars>>

NextTwice ==
    \/ NextCsv
    \/ Rerun

SpecTwice == InitCsv /\ [][NextTwice]_vars

\* ------------------------------------------------------------ all programs
Init ==
    \/ InitCsv
    \/ InitXml
    \/ InitMatch

Next ==
    \/ NextCsv
    \/ NextXml
    \/ NextMatch

Spec == Init /\ [][Next]_vars

\* ------------------------------------------------------------- properties
\* C1: once cluster_rows has returned, every row is either a picked pivot,
\* suppressed by nobody, or is not picked and was suppressed by exactly one
\* row, which is a picked pivot and matches it under periods_match(pivot, row).
C1_EveryRowPickedOrSuppressedOnce ==
    (prog = "csv" /\ pc \in {"clustered", "done"}) =>
        /\ Len(picked) = Cardinality({k \in DOMAIN rows : ~removed[k]})
        /\ \A k \in DOMAIN rows :
              IF removed[k]
              THEN /\ rows[k] \notin Range(picked)
                   /\ \E p \in DOMAIN rows :
                         /\ claimed[k] = {p}
                         /\ rows[p] \in Range(picked)
                         /\ Match(rows[p], rows[k])
              ELSE /\ rows[k] \in Range(picked)
                   /\ claimed[k] = {}

\* cluster_rows returned two pivots and suppressed a row
C1_Witness ==
    /\ prog = "csv" /\ pc = "clustered"
    /\ Len(picked) >= 2
    /\ \E k \in DOMAIN rows : removed[k]

\* C3: a row is only ever suppressed by a row that ranks at least as high:
\* a pivot of finite SNR suppresses rows of non-finite SNR or of SNR <= its
\* own, a pivot of non-finite SNR only rows of non-finite SNR.
C3_PivotOutranksSuppressed ==
    prog = "csv" =>
        \A k \in DOMAIN claimed : \A p \in claimed[k] :
            IF IsFinite(rows[p].snr)
            THEN ~IsFinite(rows[k].snr) \/ FLe(rows[k].snr, rows[p].snr)
            ELSE ~IsFinite(rows[k].snr)

\* a pivot of finite SNR suppressed a row of non-finite SNR, and a pivot
\* suppressed a row of smaller finite SNR
C3_Witness ==
    /\ prog = "csv" /\ pc = "clustered"
    /\ \E k \in DOMAIN claimed : \E p \in claimed[k] :
          IsFinite(rows[p].snr) /\ ~IsFinite(rows[k].snr)
    /\ \E k \in DOMAIN claimed : \E p \in claimed[k] :
          IsFinite(rows[k].snr) /\ FLt(rows[k].snr, rows[p].snr)

\* C5: a second call of cluster_rows on the same rows under the same
\* configuration ends with the same sorted rows, the same picked list in the
\* same order and the same suppressions, and rows of equal SNR stand in
\* their ingestion order.
C5_SecondRunIdentical ==
    (prog = "csv" /\ pc \in {"clustered", "done"} /\ first # <<>>) =>
        /\ picked = first[1].picked
        /\ rows = first[1].rows
        /\ claimed = first[1].claimed
        /\ \A x, y \in DOMAIN rows :
              (x < y /\ snr_cmp(rows[x], rows[y]) = "Equal")
                  => rows[x].row.id < rows[y].row.id

\* the second call returned; two of the rows have equal SNR, two pivots were
\* picked and a row was suppressed
C5_Witness ==
    /\ prog = "csv" /\ pc = "clustered" /\ first # <<>>
    /\ Len(picked) >= 2
    /\ \E k \in DOMAIN rows : removed[k]
    /\ \E x, y \in DOMAIN rows : x < y /\ snr_cmp(rows[x], rows[y]) = "Equal"

C2_EveryCandidatePivotOrClaimedOnce ==
    (prog = "xml" /\ pc \in {"shortlisted", "saved", "done"} /\ status # "err") =>
        \A k \in DOMAIN cands :
            \/ cands[k].is_pivot
            \/ Cardinality({p \in DOMAIN cands :
                               cands[p].is_pivot /\ k \in Range(cands[p].related)}) = 1

\* C4: after shortlist_candidates no pivot has a smaller SNR than a rejected
\* candidate of its related list.
C4_PivotOutranksRelated ==
    (prog = "xml" /\ pc \in {"shortlisted", "saved", "done"} /\ status # "err") =>
        \A p \in DOMAIN cands : \A k \in Range(cands[p].related) :
            (cands[p].is_pivot /\ ~cands[k].is_pivot)
                => FLe(cands[k].snr, cands[p].snr)

\* C6: a candidate of positive finite period, with a finite DM and a finite
\* acceleration, matches itself under a period tolerance >= 0, in
\* periods_match, in is_related and in the matcher's periods_match_abs with
\* dim_match_abs.
C6_SelfMatch ==
    (prog = "match" /\ pc = "applied") =>
        LET p == IF verdict.fn = "periods_match" THEN verdict.a[1].period_s
                 ELSE verdict.a[1].period
        IN (/\ IsFinite(p) /\ FGt(p, Zero)
            /\ IsFinite(verdict.a[1].dm) /\ IsFinite(verdict.a[1].acc)
            /\ FLe(Zero, cfg.ptol_abs)) => out[1].aa

\* C7: periods_match and is_related are symmetric on candidates of positive
\* finite period, finite DM and finite acceleration: when the predicate holds
\* of (a, b) it holds of (b, a).
C7_Symmetric ==
    (prog = "match" /\ pc = "applied"
        /\ verdict.fn \in {"periods_match", "is_related"}
        /\ out[1].ab
        /\ \A x \in {verdict.a[1], verdict.b[1]} :
              LET p == IF verdict.fn = "periods_match" THEN x.period_s ELSE x.period
              IN IsFinite(p) /\ FGt(p, Zero) /\ IsFinite(x.dm) /\ IsFinite(x.acc))
        => out[1].ba

\* C8: with a DM tolerance set and a DM field that is empty or NaN in one of
\* the two records, periods_match (after parse_row) and the matcher's test do
\* not match the pair; the same for the acceleration.
C8_NoValueNoMatch ==
    (prog = "match" /\ pc = "applied"
        /\ verdict.fn \in {"periods_match", "rows_match"}
        /\ \/ /\ IsSome(cfg.dmtol)
              /\ \E k \in {1, 2} : pair[k].dm.t \in {"empty", "nan"}
           \/ /\ IsSome(cfg.acctol)
              /\ \E k \in {1, 2} : pair[k].acc.t \in {"empty", "nan"})
        => ~out[1].ab

\* C9: what reaches the clustering or a match predicate has a positive
\* finite period: the rows of parse_row, the candidates of parse_xml_file
\* that cluster_candidates works on, the rows extract_period_indices gave a
\* period and the matcher's test is applied to.
C9_OnlyValidPeriodsIngested ==
    LET valid(p) == IsFinite(p) /\ FGt(p, Zero)
    IN /\ prog = "csv" => \A k \in DOMAIN all_rows : valid(all_rows[k].period_s)
       /\ (prog = "xml" /\ pc \in {"tasks", "clustered", "shortlisted", "saved"}) =>
             \A k \in DOMAIN cands : valid(cands[k].period)
       /\ (prog = "match" /\ pc = "applied") =>
             \A x \in Range(verdict.a) \cup Range(verdict.b) :
                 valid(IF verdict.fn = "periods_match" THEN x.period_s ELSE x.period)
\* C11: a run whose command line gives a period, DM or acceleration tolerance
\* that is not a number or is <= 0 never gets past its command line: it ends
\* with an error, nothing read, nothing clustered or matched, nothing written.
C11_ConfigErrorIsFatal ==
    LET bad(tok) == /\ tok # TAbsent
                    /\ \/ ~IsSome(ParseF64(tok))
                       \/ FLe(ParseF64(tok), Zero)
        badLine == CASE prog = "csv" -> bad(argv.ptol) \/ bad(argv.dmtol) \/ bad(argv.acctol)
                     [] prog = "xml" -> bad(argv.period_thresh) \/ bad(argv.dm_thresh)
                     [] prog = "matcher" -> bad(argv.ptol) \/ bad(argv.dmtol) \/ bad(argv.acctol)
                     [] OTHER -> FALSE
    IN (argv # <<>> /\ badLine) =>
          \/ pc = "args"
          \/ /\ pc = "done"
             /\ status \in {"err", "panic"}
             /\ cfg = <<>>
             /\ out = <<>>

\* C12: in csv_matcher, for every two rows whose periods pass
\* periods_match_abs, the bucket of the second row's period is one of the
\* buckets neighbors_for returns for the bucket of the first row's period.
C12_IndexNeverOmits ==
    (prog = "matcher" /\ pc = "scan") =>
        \A g, h \in DOMAIN all_rows :
            ( /\ g # h
              /\ IsSome(all_rows[g].period)
              /\ IsSome(all_rows[h].period)
              /\ periods_match_abs(all_rows[g].period, all_rows[h].period, cfg.ptol,
                                   cfg.harmonics, cfg.hmax) )
            => bucket_abs(all_rows[h].period, cfg.ptol) \in
                   neighbors_for(bucket_abs(all_rows[g].period, cfg.ptol), cfg.hmax,
                                 cfg.harmonics, cfg.ptol)

\* C13: in csv_matcher a row is marked matched only if a row of another
\* input file matches it on the periods and on the DM and ACC gates that are
\* set; rows of its own file, and the row itself, never get it marked.
C13_MarkedOnlyAcrossFiles ==
    (prog = "matcher" /\ pc \in {"scan", "done"}) =>
        \A g \in DOMAIN matched :
            matched[g] =>
                \E h \in DOMAIN all_rows :
                    /\ h # g
                    /\ all_rows[h].file_id # all_rows[g].file_id
                    /\ IsSome(all_rows[g].period) /\ IsSome(all_rows[h].period)
                    /\ periods_match_abs(all_rows[g].period, all_rows[h].period,
                                         cfg.ptol, cfg.harmonics, cfg.hmax)
                    /\ dim_match_abs(all_rows[g].dm, all_rows[h].dm, cfg.dmtol)
                    /\ dim_match_abs(all_rows[g].acc, all_rows[h].acc, cfg.acctol)

\* The scan has ended with a row marked and with a row left unmarked that
\* matches a row of its own file and no row of the other file.
C13_Witness ==
    /\ prog = "matcher" /\ pc = "done" /\ status = "ok"
    /\ \E g \in DOMAIN matched : matched[g]
    /\ \E g, h \in DOMAIN matched :
          /\ g # h
          /\ ~matched[g]
          /\ all_rows[g].file_id = all_rows[h].file_id
          /\ rows_match(all_rows[g], all_rows[h], cfg.ptol, cfg.dmtol, cfg.acctol,
                        cfg.harmonics, cfg.hmax)
          /\ \A k \in DOMAIN matched :
                all_rows[k].file_id # all_rows[g].file_id =>
                    ~rows_match(all_rows[g], all_rows[k], cfg.ptol, cfg.dmtol,
                                cfg.acctol, cfg.harmonics, cfg.hmax)

C15_DefaultTobsIs3600 ==
    ( /\ prog = "match" /\ pc = "applied"
      /\ verdict.fn = "periods_match"
      /\ verdict.b # <<>>
      /\ ~IsSome(cfg.tobs_opt) )
    => out[1].ab = periods_match(verdict.a[1], verdict.b[1], cfg.ptol_abs, cfg.dmtol,
                                 cfg.acctol, cfg.allow_harmonics, FromInt(3600))

C17_BadCorrectionNoMatch ==
    ( /\ prog = "match" /\ pc = "applied"
      /\ verdict.fn \in {"periods_match", "is_related"}
      /\ verdict.b # <<>> )
    => LET a == verdict.a[1]
           b == verdict.b[1]
           f0 == IF verdict.fn = "periods_match" THEN FDiv(One, b.period_s) ELSE b.f0
           toc == IF verdict.fn = "is_related" THEN PairTobsOverC
                  ELSE FDiv(IF IsSome(cfg.tobs_opt) THEN cfg.tobs_opt
                            ELSE FromInt(DefaultTobs), SpeedOfLight)
           f_corr == FSub(f0, FMul(FMul(FSub(b.acc, a.acc), f0), toc))
       IN (~IsFinite(f_corr) \/ FLe(f_corr, Zero)) => ~out[1].ab

\* C18: cluster_rows works on the rows in descending order of SNR, the rows
\* of non-finite SNR after all others, rows that tie in their ingestion
\* order; and the comparator of the sort is a consistent total preorder on
\* the rows: swapping its arguments reverses its answer, and it is
\* transitive.
C18_SortedBySnrStable ==
    (prog = "csv" /\ rows # <<>>) =>
        /\ Len(rows) = Len(all_rows)
        /\ \A k \in DOMAIN all_rows : \E x \in DOMAIN rows : rows[x] = all_rows[k]
        /\ \A x, y \in DOMAIN rows : x < y =>
              LET a == rows[x].snr
                  b == rows[y].snr
              IN /\ IsFinite(b) => (IsFinite(a) /\ FLe(b, a))
                 /\ ((~IsFinite(a) /\ ~IsFinite(b)) \/ (IsFinite(a) /\ FEq(a, b)))
                       => rows[x].row.id < rows[y].row.id
        /\ \A a, b \in Range(rows) :
              snr_cmp(a, b) = CASE snr_cmp(b, a) = "Less" -> "Greater"
                                [] snr_cmp(b, a) = "Greater" -> "Less"
                                [] OTHER -> "Equal"
        /\ \A a, b, c \in Range(rows) :
              (snr_cmp(a, b) # "Greater" /\ snr_cmp(b, c) # "Greater")
                  => snr_cmp(a, c) # "Greater"

\* the sort changed the order of three rows: one of non-finite SNR, read
\* before a row of finite SNR, and two rows of one finite SNR
C18_Witness ==
    /\ prog = "csv" /\ pc = "outer"
    /\ Len(rows) = 3
    /\ rows # all_rows
    /\ \E x, y \in DOMAIN all_rows :
          x < y /\ ~IsFinite(all_rows[x].snr) /\ IsFinite(all_rows[y].snr)
    /\ \E x, y \in DOMAIN rows :
          x < y /\ IsFinite(rows[x].snr) /\ FEq(rows[x].snr, rows[y].snr)

\* C19: when cluster_rows returns, no picked pivot matches a pivot picked
\* after it (periods_match(p, q) is false for p before q), and every row
\* that was not picked is matched by a picked pivot that stands before it in
\* the sorted order.
C19_PivotsIndependentAndDominating ==
    (prog = "csv" /\ pc \in {"clustered", "done"}) =>
        /\ \A x, y \in DOMAIN picked : x < y => ~Match(picked[x], picked[y])
        /\ \A k \in DOMAIN rows :
              rows[k] \notin Range(picked)
                  => \E p \in 1..(k - 1) : /\ rows[p] \in Range(picked)
                                           /\ Match(rows[p], rows[k])

\* cluster_rows returned with three rows: the first two are pivots, the
\* third was not picked and is matched by the second pivot, not by the first
C19_Witness ==
    /\ prog = "csv" /\ pc = "clustered"
    /\ Len(rows) = 3
    /\ picked = <<rows[1], rows[2]>>
    /\ Match(rows[2], rows[3])
    /\ ~Match(rows[1], rows[3])

\* C20: in cluster_candidates, whatever the order in which the parallel
\* tasks finish, with and without DM binning: the results hold one entry per
\* finished index and none for another, the entry of an index is the related
\* list the single-threaded run in index order computes for it, every
\* candidate's related list is written from the entry of its own index, and
\* shortlist_candidates returns the pivots of that single-threaded run.
C20_ParallelEqualsSequential ==
    prog = "xml" =>
        /\ pc = "tasks" =>
              /\ {r[1] : r \in results} = DOMAIN cands \ todo
              /\ \A k \in DOMAIN cands : Cardinality({r \in results : r[1] = k}) <= 1
              /\ \A r \in results : r[2] = SequentialRelated(cands, r[1], r[1] + 1)
        /\ (pc \in {"clustered", "shortlisted", "saved"} \/ (pc = "done" /\ status = "ok")) =>
              /\ \A k \in DOMAIN cands :
                    /\ Cardinality({r \in results : r[1] = k}) = 1
                    /\ <<k, cands[k].related>> \in results
                    /\ cands[k].related = SequentialRelated(cands, k, k + 1)
        /\ (pc \in {"shortlisted", "saved"} \/ (pc = "done" /\ status = "ok")) =>
              /\ pivots = SequentialPivots(cands, 1)
              /\ \A k \in DOMAIN cands :
                    cands[k].is_pivot <=> \E x \in DOMAIN pivots : pivots[x] = k

\* with DM binning, candidates in more than one bin: a task of a later
\* index has finished with a related list that is not empty while the task
\* of the first index has not run
C20_Witness ==
    /\ prog = "xml" /\ pc = "tasks"
    /\ cfg.bin_dm
    /\ \E x, y \in DOMAIN cands :
          dm_bin(cands[x], cfg.dm_thresh) # dm_bin(cands[y], cfg.dm_thresh)
    /\ 1 \in todo
    /\ \E r \in results : r[1] > 1 /\ r[2] # <<>>

\* C21: every row cluster_rows returns is one of its input rows with every
\* field (original columns, source, period, dm, acc, snr) unchanged, no
\* input row is returned twice, and for a non-empty input the result is not
\* empty: its first row is the first row of the sorted order.
C21_PickedAreInputRowsUnchanged ==
    (prog = "csv" /\ pc \in {"clustered", "done"}) =>
        /\ \A x \in DOMAIN picked : \E k \in DOMAIN all_rows : picked[x] = all_rows[k]
        /\ \A x, y \in DOMAIN picked : x # y => picked[x].row.id # picked[y].row.id
        /\ all_rows # <<>> => (picked # <<>> /\ picked[1] = rows[1])

\* cluster_rows returned some of three rows, not all; the sort had moved the
\* first pivot from a later place of the input to the front, and a pivot
\* has a non-zero acceleration
C21_Witness ==
    /\ prog = "csv" /\ pc = "clustered"
    /\ Len(all_rows) = 3
    /\ Len(picked) \in {1, 2}
    /\ picked[1] # all_rows[1]
    /\ \E x \in DOMAIN picked : picked[x].acc # Zero

\* C22: when csv_matcher's scan over the bucket index has ended, the rows it
\* marked are those an all-pairs scan marks: a row is marked if and only if
\* some row of another file has a period that passes periods_match_abs with
\* its own and passes both dim_match_abs gates with it.
C22_ScanEqualsAllPairs ==
    (prog = "matcher" /\ pc = "done" /\ status = "ok") =>
        \A g \in DOMAIN all_rows :
            matched[g] <=>
                \E h \in DOMAIN all_rows :
                    /\ all_rows[h].file_id # all_rows[g].file_id
                    /\ IsSome(all_rows[g].period) /\ IsSome(all_rows[h].period)
                    /\ periods_match_abs(all_rows[g].period, all_rows[h].period,
                                         cfg.ptol, cfg.harmonics, cfg.hmax)
                    /\ dim_match_abs(all_rows[g].dm, all_rows[h].dm, cfg.dmtol)
                    /\ dim_match_abs(all_rows[g].acc, all_rows[h].acc, cfg.acctol)

\* C23: for the same candidates and thresholds cluster_candidates computes
\* with bin_dm = true the related lists it computes with bin_dm = false:
\* after clustering, in either mode, every candidate's related list is the
\* one the task of its index yields without binning and the one it yields
\* with binning.
C23_BinningLosesNoPair ==
    (prog = "xml" /\ (pc \in {"clustered", "shortlisted", "saved"}
                      \/ (pc = "done" /\ status = "ok"))) =>
        \A k \in DOMAIN cands :
            /\ cands[k].related = cluster_task(cands, k, cfg.period_thresh, cfg.dm_thresh,
                                               tobs_over_c_of(xml_file_objects), FALSE)
            /\ cands[k].related = cluster_task(cands, k, cfg.period_thresh, cfg.dm_thresh,
                                               tobs_over_c_of(xml_file_objects), TRUE)

====
